---- MODULE Spec2Model ----
(***************************************************************************)
(* State machine of the Welcome component (src/unnamed/part_000): the      *)
(* user-search lifecycle (searchUsers), the repository-fetch lifecycle     *)
(* (fetchUserRepositories) and the event handlers that drive them.  Each   *)
(* handler runs to its first await in one step; each pending fetch is an   *)
(* entry of searchReqs / repoReqs and its continuation (the code after     *)
(* the awaits, up to and including the finally block) is one step.         *)
(* The theme (isDarkMode, its two effects and toggleTheme) is the record   *)
(* theme; it moves in ThemeSpec only.                                      *)
(***************************************************************************)
EXTENDS Integers, Sequences, FiniteSets, TLC

VARIABLES
    searchTerm,     \* useState('')            line 37
    users,          \* useState<GitHubUser[]>  line 38
    selectedUser,   \* useState(null)          line 39
    repositories,   \* useState<GitHubRepo[]>  line 40
    searchLoading,  \* line 41
    reposLoading,   \* line 42
    hasSearched,    \* line 43
    error,          \* line 44
    currentPage,    \* line 45
    totalUsers,     \* line 46
    hasNextPage,    \* line 47
    theme,          \* isDarkMode of line 48 and what its effects read and write
    searchReqs,     \* pending fetches of searchUsers, in issue order
    repoReqs,       \* pending fetches of fetchUserRepositories, in issue order
    lastEvent       \* history: the search or selection step that ran last

searchVars == <<users, searchLoading, hasSearched, currentPage, totalUsers, hasNextPage>>
selVars == <<selectedUser, repositories, reposLoading>>
vars == <<searchTerm, users, selectedUser, repositories, searchLoading, reposLoading,
          hasSearched, error, currentPage, totalUsers, hasNextPage, searchReqs,
          repoReqs, lastEvent, theme>>

\* The fields of theme
isDarkMode == theme.isDarkMode    \* useState(false), line 48
savedTheme == theme.saved         \* the item 'github-explorer-theme' of localStorage
prefersDark == theme.prefersDark  \* matchMedia('(prefers-color-scheme: dark)').matches
darkClass == theme.darkClass      \* the class 'dark' is on document.documentElement
themePc == theme.pc               \* which of the theme effects runs next
queuedTheme == theme.queued       \* the value passed to setIsDarkMode, until the render

\* the state of the component and the fetches it awaits, without the history
programVars ==
    <<searchTerm, users, selectedUser, repositories, searchLoading, reposLoading,
      hasSearched, error, currentPage, totalUsers, hasNextPage, searchReqs, repoReqs,
      theme>>

----------------------------------------------------------------------------
(* Bounds of the model *)

\* pending fetches at one time, of searchUsers and fetchUserRepositories together
MaxInFlight == 3
\* the largest total_count the modelled server reports
MaxTotal == 6

\* the pagination arithmetic is tried on the pages and counts within CalcSpan
\* pages of the first page and of the page limit
CalcSpan == 3

(* Program constants *)
usersPerPage == 5
PageLimit == 200

\* null (selectedUser, error)
None == "null"
\* a total_count that the body does not carry (undefined)
Absent == -1

----------------------------------------------------------------------------
(* Values *)

\* Query texts typed into the input (sequences of characters): one that is
\* blank and one that is not.  The input starts empty.
Queries == {<<" ">>, <<"a">>}

IsSpace(c) == c = " "

RECURSIVE TrimStart(_)
TrimStart(s) == IF s # <<>> /\ IsSpace(Head(s)) THEN TrimStart(Tail(s)) ELSE s

RECURSIVE TrimEnd(_)
TrimEnd(s) ==
    IF s # <<>> /\ IsSpace(s[Len(s)]) THEN TrimEnd(SubSeq(s, 1, Len(s) - 1)) ELSE s

\* String.prototype.trim
Trim(s) == TrimEnd(TrimStart(s))

\* A GitHubUser is modelled by its login, a page of n users by the first n logins.
Logins == <<"u1", "u2", "u3", "u4", "u5">>
UserPage(n) == SubSeq(Logins, 1, n)

\* The user cards the modelled caller clicks: two different users.
Clicked == {Logins[1], Logins[2]}

\* A GitHubRepo of the given owner.
Repo(login) == [owner |-> login, name |-> "r"]

\* Error messages: the two thrown by the code (lines 99, 126) and the message
\* carried by an error of the runtime (fetch or json() rejecting; reading
\* .length of undefined).
MsgSearch == "Failed to search users"
MsgRepos == "Failed to fetch repositories"
MsgRejected == "Failed to fetch"
MsgType == "Cannot read properties of undefined"

\* err instanceof Error ? err.message : 'An error occurred'     lines 110, 131
ErrorText(kind) ==
    CASE kind = "http_search" -> MsgSearch
      [] kind = "http_repos" -> MsgRepos
      [] kind = "rejected" -> MsgRejected
      [] kind = "shape" -> MsgType
      [] OTHER -> "An error occurred"

\* What the search endpoint can answer.
\*   ok:          a body with an items array (n users) and a total_count
\*                (possibly missing)
\*   shape:       a body that parses but carries no items array
\*   http_search: !response.ok
\*   rejected:    fetch() rejects (network) or response.json() rejects (decoding)
SearchResponses ==
    [kind : {"ok"}, n : {0, 1, usersPerPage}, total : {Absent, MaxTotal}]
    \cup [kind : {"shape", "http_search", "rejected"}, n : {0}, total : {Absent}]

\* What the repositories endpoint can answer for a login.
RepoResponses(login) ==
    [kind : {"ok"}, data : {<<>>, <<Repo(login)>>}]
    \cup [kind : {"http_repos", "rejected"}, data : {<<>>}]

----------------------------------------------------------------------------
(* Pagination arithmetic of searchUsers, lines 103-108 *)

CeilDiv(a, b) == (a + b - 1) \div b

Min(a, b) == IF a < b THEN a ELSE b

\* data.total_count || 0
TotalOrZero(total) == IF total = Absent THEN 0 ELSE total

\* Variant: the length of the page is not looked at.
ComputeHasNextPageAnyLength(total, page, n) ==
    /\ total # Absent
    /\ page < Min(CeilDiv(total, usersPerPage), PageLimit)

\* Variant: the page count is not capped at the limit of the API.
ComputeHasNextPageUncapped(total, page, n) ==
    /\ total # Absent
    /\ page < CeilDiv(total, usersPerPage)
    /\ n = usersPerPage

\* page < Math.min(Math.ceil(total_count / usersPerPage), 200) && items.length === usersPerPage
\* (a missing total_count makes totalPages NaN and the comparison false)
ComputeHasNextPage(total, page, n) ==
    /\ total # Absent
    /\ page < Min(CeilDiv(total, usersPerPage), PageLimit)
    /\ n = usersPerPage

----------------------------------------------------------------------------
\* The theme state of the first render, lines 48-70: isDarkMode is false and
\* neither effect has run.  saved is the item of localStorage, absent on a
\* first visit and otherwise what line 64 wrote on an earlier one; prefers is
\* the preference of the system.
ThemeAtMount(saved, prefers) ==
    theme = [isDarkMode |-> FALSE, saved |-> saved, prefersDark |-> prefers,
             darkClass |-> FALSE, pc |-> "effect1", queued |-> None]

\* The state of the first render but for the theme: the initial values of
\* lines 37-47, nothing fetched.
ComponentInit ==
    /\ searchTerm = <<>>
    /\ users = <<>>
    /\ selectedUser = None
    /\ repositories = <<>>
    /\ searchLoading = FALSE
    /\ reposLoading = FALSE
    /\ hasSearched = FALSE
    /\ error = None
    /\ currentPage = 1
    /\ totalUsers = 0
    /\ hasNextPage = FALSE
    /\ searchReqs = <<>>
    /\ repoReqs = <<>>
    /\ lastEvent = [op |-> "init"]

\* The state of the first render, on a first visit in a light system.
Init == ComponentInit /\ ThemeAtMount(None, FALSE)

\* Variant: typing in the input also goes back to the first page.
HandleSearchChangeResetsPage(value) ==
    /\ value # searchTerm
    /\ searchTerm' = value
    /\ currentPage' = 1
    /\ UNCHANGED <<users, searchLoading, hasSearched, totalUsers, hasNextPage, selVars,
                   error, searchReqs, repoReqs, lastEvent, theme>>

\* handleSearchChange, lines 143-146
HandleSearchChange(value) ==
    /\ value # searchTerm
    /\ searchTerm' = value
    /\ UNCHANGED <<lastEvent, searchVars, selVars, error, searchReqs, repoReqs, theme>>

----------------------------------------------------------------------------
(* searchUsers, lines 78-117 *)

\* A pending search fetch.  late is history: a fetch issued after this one has
\* already settled.
SearchReq(query, page) == [query |-> query, page |-> page, late |-> FALSE]

\* The sequence without its i-th entry; the entries before it are now late.
SettleAt(reqs, i) ==
    [j \in 1..(Len(reqs) - 1) |->
        IF j < i THEN [reqs[j] EXCEPT !.late = TRUE] ELSE reqs[j + 1]]

\* Variant: the blank query leaves the page number, without line 83.
SearchEmptyKeepsPage ==
    /\ users' = <<>>
    /\ totalUsers' = 0
    /\ hasNextPage' = FALSE
    /\ hasSearched' = FALSE
    /\ UNCHANGED <<currentPage, searchLoading, error, searchReqs>>

\* lines 79-86: the query is empty after trimming
SearchEmpty ==
    /\ users' = <<>>
    /\ totalUsers' = 0
    /\ hasNextPage' = FALSE
    /\ currentPage' = 1
    /\ hasSearched' = FALSE
    /\ UNCHANGED <<searchLoading, error, searchReqs>>

\* lines 88-97: up to the await of the fetch
SearchBegin(query, page) ==
    /\ Len(searchReqs) + Len(repoReqs) < MaxInFlight
    /\ searchLoading' = TRUE
    /\ hasSearched' = TRUE
    /\ error' = None
    /\ searchReqs' = Append(searchReqs, SearchReq(query, page))
    /\ UNCHANGED <<users, totalUsers, hasNextPage, currentPage>>

\* The call searchUsers(query, page), up to its return or first await.
searchUsers(query, page) ==
    IF Trim(query) = <<>>
    THEN /\ SearchEmpty
         /\ lastEvent' = [op |-> "searchEmpty"]
    ELSE /\ SearchBegin(query, page)
         /\ lastEvent' = [op |-> "searchBegin", page |-> page]

\* Variant: the success branch without setCurrentPage(page) of line 104.
SearchSucceededKeepsPage(req, resp) ==
    /\ users' = UserPage(resp.n)
    /\ totalUsers' = TotalOrZero(resp.total)
    /\ hasNextPage' = ComputeHasNextPage(resp.total, req.page, resp.n)
    /\ UNCHANGED <<currentPage, searchTerm, hasSearched, error, selVars>>

\* Variant: the success branch adds the items to the list, up to one page,
\* where line 102 replaces the list.
SearchSucceededAppends(req, resp) ==
    /\ users' = SubSeq(users \o UserPage(resp.n), 1,
                       Min(Len(users) + resp.n, usersPerPage))
    /\ totalUsers' = TotalOrZero(resp.total)
    /\ currentPage' = req.page
    /\ hasNextPage' = ComputeHasNextPage(resp.total, req.page, resp.n)
    /\ UNCHANGED <<searchTerm, hasSearched, error, selVars>>

\* lines 101-108: the body was read
SearchSucceeded(req, resp) ==
    /\ users' = UserPage(resp.n)
    /\ totalUsers' = TotalOrZero(resp.total)
    /\ currentPage' = req.page
    /\ hasNextPage' = ComputeHasNextPage(resp.total, req.page, resp.n)
    /\ UNCHANGED <<searchTerm, hasSearched, error, selVars>>

\* Variant: the catch block does not empty the list.
SearchFailedKeepsUsers(kind) ==
    /\ error' = ErrorText(kind)
    /\ totalUsers' = 0
    /\ hasNextPage' = FALSE
    /\ UNCHANGED <<users, searchTerm, hasSearched, selVars>>

\* lines 109-113: the catch block
SearchFailed(kind) ==
    /\ error' = ErrorText(kind)
    /\ users' = <<>>
    /\ totalUsers' = 0
    /\ hasNextPage' = FALSE
    /\ UNCHANGED <<searchTerm, hasSearched, selVars>>

\* lines 102-104, then data.items.length throws at line 108 and the catch
\* block runs: the page was already stored.
SearchMalformed(req) ==
    /\ currentPage' = req.page
    /\ SearchFailed("shape")

\* Variant: the answer of a fetch that a later one has overtaken is dropped.
SearchApplyFenced(req, resp) ==
    IF req.late
    THEN UNCHANGED <<error, users, totalUsers, currentPage, hasNextPage, searchTerm,
                     hasSearched, selVars>>
    ELSE CASE resp.kind = "ok" -> SearchSucceeded(req, resp)
           [] resp.kind = "shape" -> SearchMalformed(req)
           [] OTHER -> SearchFailed(resp.kind) /\ UNCHANGED currentPage

\* lines 92-113: the try and catch blocks on the answer resp
SearchApply(req, resp) ==
    CASE resp.kind = "ok" -> SearchSucceeded(req, resp)
      [] resp.kind = "shape" -> SearchMalformed(req)
      [] OTHER -> SearchFailed(resp.kind) /\ UNCHANGED currentPage

\* Variant: no finally block, the flag is left as the continuation finds it.
SearchFinallyKeepsLoading == UNCHANGED searchLoading

\* line 115: the finally block
SearchFinally == searchLoading' = FALSE

\* The continuation of the i-th pending search fetch on the answer resp.
SearchSettle(i, resp) ==
    LET req == searchReqs[i] IN
    /\ SearchApply(req, resp)
    /\ SearchFinally
    /\ searchReqs' = SettleAt(searchReqs, i)
    /\ lastEvent' = [op |-> IF resp.kind = "ok" THEN "searchOk" ELSE "searchFail",
                     page |-> req.page, late |-> req.late, resp |-> resp]
    /\ UNCHANGED <<repoReqs, theme>>

\* handleKeyPress with Enter, and the onSearch button: lines 148-152, 221
HandleSearch ==
    /\ searchUsers(searchTerm, 1)
    /\ UNCHANGED <<searchTerm, selVars, repoReqs, theme>>

\* Variant: handleNextPage issues the fetch itself, without the test for a
\* blank query of lines 79-86.
HandleNextPageAnyText ==
    /\ users # <<>>
    /\ IF hasNextPage
       THEN /\ SearchBegin(searchTerm, currentPage + 1)
            /\ lastEvent' = [op |-> "searchBegin", page |-> currentPage + 1]
       ELSE /\ lastEvent' = [op |-> "noop"]
            /\ UNCHANGED <<searchVars, error, searchReqs>>
    /\ UNCHANGED <<searchTerm, selVars, repoReqs, theme>>

\* handleNextPage, lines 154-158; the control is rendered with the user list
HandleNextPage ==
    /\ users # <<>>
    /\ IF hasNextPage
       THEN searchUsers(searchTerm, currentPage + 1)
       ELSE /\ lastEvent' = [op |-> "noop"]
            /\ UNCHANGED <<searchVars, error, searchReqs>>
    /\ UNCHANGED <<searchTerm, selVars, repoReqs, theme>>

\* Variant: handlePrevPage without the test of line 161.
HandlePrevPageUnguarded ==
    /\ users # <<>>
    /\ searchUsers(searchTerm, currentPage - 1)
    /\ UNCHANGED <<searchTerm, selVars, repoReqs, theme>>

\* handlePrevPage, lines 160-164
HandlePrevPage ==
    /\ users # <<>>
    /\ IF currentPage > 1
       THEN searchUsers(searchTerm, currentPage - 1)
       ELSE /\ lastEvent' = [op |-> "noop"]
            /\ UNCHANGED <<searchVars, error, searchReqs>>
    /\ UNCHANGED <<searchTerm, selVars, repoReqs, theme>>

----------------------------------------------------------------------------
(* fetchUserRepositories and handleUserSelect, lines 119-141 *)

\* A pending repository fetch.  stale is history: handleUserSelect ran again
\* after the call that issued this fetch.
RepoReq(login) == [username |-> login, stale |-> FALSE]

\* lines 120-124: up to the await of the fetch
ReposBegin(login) ==
    /\ Len(searchReqs) + Len(repoReqs) < MaxInFlight
    /\ reposLoading' = TRUE
    /\ error' = None
    /\ repoReqs' = Append([j \in 1..Len(repoReqs) |-> [repoReqs[j] EXCEPT !.stale = TRUE]],
                          RepoReq(login))
    /\ UNCHANGED repositories

\* lines 128-129
ReposSucceeded(resp) ==
    /\ repositories' = resp.data
    /\ UNCHANGED <<searchTerm, searchVars, selectedUser, error>>

\* Variant: the catch block empties the user list as the one of searchUsers does.
ReposFailedEmptiesUsers(kind) ==
    /\ error' = ErrorText(kind)
    /\ repositories' = <<>>
    /\ users' = <<>>
    /\ UNCHANGED <<searchTerm, searchLoading, hasSearched, currentPage, totalUsers,
                   hasNextPage, selectedUser>>

\* Variant: the catch block does not empty the repositories.
ReposFailedKeepsRepositories(kind) ==
    /\ error' = ErrorText(kind)
    /\ UNCHANGED <<repositories, searchTerm, searchVars, selectedUser>>

\* lines 130-132: the catch block
ReposFailed(kind) ==
    /\ error' = ErrorText(kind)
    /\ repositories' = <<>>
    /\ UNCHANGED <<searchTerm, searchVars, selectedUser>>

\* lines 123-132: the try and catch blocks on the answer resp
ReposApply(resp) ==
    IF resp.kind = "ok" THEN ReposSucceeded(resp) ELSE ReposFailed(resp.kind)

\* Variant: no finally block, the flag is left as the continuation finds it.
ReposFinallyKeepsLoading == UNCHANGED reposLoading

\* line 134: the finally block
ReposFinally == reposLoading' = FALSE

\* handleUserSelect: a click on a rendered user card, lines 138-141, 278-283
HandleUserSelect(user) ==
    /\ user \in {users[i] : i \in 1..Len(users)}
    /\ selectedUser' = user
    /\ ReposBegin(user)
    /\ lastEvent' = [op |-> "select", user |-> user]
    /\ UNCHANGED <<searchTerm, searchVars, searchReqs, theme>>

\* The continuation of the i-th pending repository fetch on the answer resp.
ReposSettle(i, resp) ==
    LET req == repoReqs[i] IN
    /\ ReposApply(resp)
    /\ ReposFinally
    /\ repoReqs' = [j \in 1..(Len(repoReqs) - 1) |->
                        IF j < i THEN repoReqs[j] ELSE repoReqs[j + 1]]
    /\ lastEvent' = [op |-> IF resp.kind = "ok" THEN "reposOk" ELSE "reposFail",
                     username |-> req.username, stale |-> req.stale, resp |-> resp]
    /\ UNCHANGED <<searchReqs, theme>>

----------------------------------------------------------------------------
Next ==
    \/ \E q \in Queries : HandleSearchChange(q)
    \/ HandleSearch
    \/ HandleNextPage
    \/ HandlePrevPage
    \/ \E user \in Clicked : HandleUserSelect(user)
    \/ \E i \in 1..Len(searchReqs) : \E resp \in SearchResponses : SearchSettle(i, resp)
    \/ \E i \in 1..Len(repoReqs) :
          \E resp \in RepoResponses(repoReqs[i].username) : ReposSettle(i, resp)

Spec == Init /\ [][Next]_vars

----------------------------------------------------------------------------
(* The pagination arithmetic on its own: searchUsers(query, page) is called  *)
(* from the initial state for a page near 1 or near the page limit, and its  *)
(* fetch is answered with any number of items and a count near 0 or near    *)
(* the limit of 1000 results.                                                *)

(* The component under a user who lets a search finish before starting the *)
(* next one: no two search fetches are pending together.  Selections and    *)
(* their fetches overlap with the search as before.                          *)

SoloNext ==
    \/ \E q \in Queries : HandleSearchChange(q)
    \/ searchReqs = <<>> /\ HandleSearch
    \/ searchReqs = <<>> /\ HandleNextPage
    \/ searchReqs = <<>> /\ HandlePrevPage
    \/ \E user \in Clicked : HandleUserSelect(user)
    \/ \E i \in 1..Len(searchReqs) : \E resp \in SearchResponses : SearchSettle(i, resp)
    \/ \E i \in 1..Len(repoReqs) :
          \E resp \in RepoResponses(repoReqs[i].username) : ReposSettle(i, resp)

SoloSpec == Init /\ [][SoloNext]_vars

----------------------------------------------------------------------------

(* searchUsers(searchTerm, page) run to completion twice from a state that  *)
(* SoloNext has reached with no search pending: the second run has the same *)
(* query and page and is answered as the first was.  Nothing else happens   *)
(* between the first call and the second completion.  lastEvent records the *)
(* run, its page and answer, and the state that the first run ended in.     *)

IdemOps == {"idemBegin", "idemDone"}

\* the answer of a run that has none: its fetch is pending, or it issued none
NoAnswer == [kind |-> "none"]

\* the pages that lines 150, 156 and 162 pass to searchUsers
IdemPages == {1, currentPage + 1} \cup (IF currentPage > 1 THEN {currentPage - 1} ELSE {})

\* lines 78-97 of one run: up to the return of the empty query, or up to
\* the await of the fetch
IdemCall(run, page, resp, after) ==
    /\ searchReqs = <<>>
    /\ IF Trim(searchTerm) = <<>>
       THEN /\ SearchEmpty
            /\ UNCHANGED <<searchTerm, selVars, repoReqs, theme>>
            /\ lastEvent' = [op |-> "idemDone", run |-> run, page |-> page, resp |-> resp,
                             after |-> IF run = 1 THEN programVars' ELSE after]
       ELSE /\ SearchBegin(searchTerm, page)
            /\ UNCHANGED <<searchTerm, selVars, repoReqs, theme>>
            /\ lastEvent' = [op |-> "idemBegin", run |-> run, page |-> page, resp |-> resp,
                             after |-> after]

\* the first run starts: its answer is not known yet
IdemFirst ==
    /\ lastEvent.op \notin IdemOps
    /\ \E page \in IdemPages : IdemCall(1, page, NoAnswer, <<>>)

\* lines 98-116 of one run: the continuation of its fetch; the second run is
\* answered as the first was
IdemSettle(resp) ==
    /\ lastEvent.op = "idemBegin"
    /\ lastEvent.run = 2 => resp = lastEvent.resp
    /\ SearchApply(searchReqs[1], resp)
    /\ SearchFinally
    /\ searchReqs' = SettleAt(searchReqs, 1)
    /\ UNCHANGED <<repoReqs, theme>>
    /\ lastEvent' = [op |-> "idemDone", run |-> lastEvent.run, page |-> lastEvent.page,
                     resp |-> resp,
                     after |-> IF lastEvent.run = 1 THEN programVars' ELSE lastEvent.after]

\* the second run starts where the first ended
IdemSecond ==
    /\ lastEvent.op = "idemDone"
    /\ lastEvent.run = 1
    /\ IdemCall(2, lastEvent.page, lastEvent.resp, lastEvent.after)

IdemNext ==
    \/ lastEvent.op \notin IdemOps /\ SoloNext
    \/ IdemFirst
    \/ \E resp \in SearchResponses : IdemSettle(resp)
    \/ IdemSecond

IdemSpec == Init /\ [][IdemNext]_vars

----------------------------------------------------------------------------

(* The search lifecycle alone, with a second text to type: the input can    *)
(* hold a text other than the one whose results are on display when a page  *)
(* control is pressed.  No user card is clicked.                             *)

PageQueries == Queries \cup {<<"b">>}

PageNext ==
    \/ \E q \in PageQueries : HandleSearchChange(q)
    \/ HandleSearch
    \/ HandleNextPage
    \/ HandlePrevPage
    \/ \E i \in 1..Len(searchReqs) : \E resp \in SearchResponses : SearchSettle(i, resp)

PageSpec == Init /\ [][PageNext]_vars

----------------------------------------------------------------------------

(* Quiescence.  The handlers are the commands; the continuations are the    *)
(* gateway completing a request.  Every pending fetch is answered in the    *)
(* end, with a success or a failure: the continuations of each kind are     *)
(* weakly fair.  The answers are a full page or a rejected search, and a    *)
(* list or a rejected listing; the text typed is "a".                        *)

LiveSearchResponses ==
    {resp \in SearchResponses :
        \/ resp.kind = "ok" /\ resp.n = usersPerPage /\ resp.total = MaxTotal
        \/ resp.kind = "http_search"}

LiveRepoResponses(login) ==
    {resp \in RepoResponses(login) :
        \/ resp.kind = "ok" /\ resp.data # <<>>
        \/ resp.kind = "http_repos"}

\* a handler runs
Command ==
    \/ HandleSearchChange(<<"a">>)
    \/ HandleSearch
    \/ HandleNextPage
    \/ HandlePrevPage
    \/ \E user \in Clicked : HandleUserSelect(user)

\* the gateway answers a search, a listing
SearchCompletes ==
    \E i \in 1..Len(searchReqs) : \E resp \in LiveSearchResponses : SearchSettle(i, resp)

ReposCompletes ==
    \E i \in 1..Len(repoReqs) :
        \E resp \in LiveRepoResponses(repoReqs[i].username) : ReposSettle(i, resp)

LiveNext == Command \/ SearchCompletes \/ ReposCompletes

LiveSpec ==
    /\ Init
    /\ [][LiveNext]_vars
    /\ WF_vars(SearchCompletes)
    /\ WF_vars(ReposCompletes)

----------------------------------------------------------------------------

(* The theme, lines 48-74.  After the first render React runs the two       *)
(* effects in order and then renders again with the value that the first    *)
(* one passed to setIsDarkMode; the effect of [isDarkMode] runs again after  *)
(* every render that changed isDarkMode.  The first flush is over before a  *)
(* handler or a continuation runs, and an effect that is pending runs       *)
(* before the next click is handled.  Here a handler of the search and     *)
(* selection lifecycles runs when no fetch is pending.                       *)

\* line 64: isDarkMode ? 'dark' : 'light'
ThemeName(dark) == IF dark THEN "dark" ELSE "light"

\* what localStorage holds for the key when the component mounts
SavedThemes == {None, ThemeName(TRUE), ThemeName(FALSE)}

\* lines 50-60: the effect of [], once after the first render
ThemeEffect1 ==
    /\ themePc = "effect1"
    /\ theme' = [theme EXCEPT !.queued = IF savedTheme # None
                                         THEN ThemeName(savedTheme = "dark")
                                         ELSE ThemeName(prefersDark),
                               !.pc = "effect2"]
    /\ lastEvent' = [op |-> "themeRead", saved |-> savedTheme]
    /\ UNCHANGED <<searchTerm, searchVars, selVars, error, searchReqs, repoReqs>>

\* lines 62-70: the effect of [isDarkMode], with the isDarkMode of the render
\* that it follows
ThemeEffect2 ==
    /\ themePc \in {"effect2", "sync"}
    /\ theme' = [theme EXCEPT !.saved = ThemeName(isDarkMode),
                               !.darkClass = isDarkMode,
                               !.pc = IF themePc = "effect2" THEN "render" ELSE "idle"]
    /\ UNCHANGED lastEvent
    /\ UNCHANGED <<searchTerm, searchVars, selVars, error, searchReqs, repoReqs>>

\* the render that follows the first flush of effects: isDarkMode takes the
\* value passed at line 54 or 57, and the effect of [isDarkMode] is due again
\* if that changed it
ThemeRender ==
    /\ themePc = "render"
    /\ theme' = [theme EXCEPT !.isDarkMode = (queuedTheme = "dark"),
                               !.queued = None,
                               !.pc = IF (queuedTheme = "dark") # isDarkMode
                                      THEN "sync" ELSE "idle"]
    /\ lastEvent' = [op |-> "themeStart", saved |-> lastEvent.saved]
    /\ UNCHANGED <<searchTerm, searchVars, selVars, error, searchReqs, repoReqs>>

\* Variant: the second effect has no dependency on isDarkMode and is not run
\* again after a click.
ToggleThemeNoEffect ==
    /\ themePc = "idle"
    /\ theme' = [theme EXCEPT !.isDarkMode = ~isDarkMode]
    /\ lastEvent' = [op |-> "toggleTheme"]
    /\ UNCHANGED <<searchTerm, searchVars, selVars, error, searchReqs, repoReqs>>

\* toggleTheme, lines 72-74, and the render that follows the click
ToggleTheme ==
    /\ themePc = "idle"
    /\ theme' = [theme EXCEPT !.isDarkMode = ~isDarkMode, !.pc = "sync"]
    /\ lastEvent' = [op |-> "toggleTheme"]
    /\ UNCHANGED <<searchTerm, searchVars, selVars, error, searchReqs, repoReqs>>

\* the first flush of effects is over
ThemeMounted == themePc \in {"sync", "idle"}

ThemeInit ==
    /\ ComponentInit
    /\ \E saved \in SavedThemes : \E prefers \in BOOLEAN : ThemeAtMount(saved, prefers)

ThemeNext ==
    \/ ThemeEffect1
    \/ ThemeEffect2
    \/ ThemeRender
    \/ ToggleTheme
    \/ ThemeMounted /\ searchReqs = <<>> /\ repoReqs = <<>> /\ Command
    \/ ThemeMounted /\ SearchCompletes
    \/ ThemeMounted /\ ReposCompletes

\* a pending effect or render is run in the end
ThemeSpec ==
    /\ ThemeInit
    /\ [][ThemeNext]_vars
    /\ WF_vars(ThemeEffect1)
    /\ WF_vars(ThemeEffect2)
    /\ WF_vars(ThemeRender)

----------------------------------------------------------------------------

CalcPages == (1..CalcSpan) \cup ((PageLimit - CalcSpan)..(PageLimit + CalcSpan))

CalcTotals ==
    (0..(usersPerPage * CalcSpan))
    \cup ((usersPerPage * (PageLimit - CalcSpan))..(usersPerPage * (PageLimit + CalcSpan)))

CalcResponses == [kind : {"ok"}, n : 0..usersPerPage, total : CalcTotals]

CalcInit ==
    /\ searchTerm = <<"a">>
    /\ users = <<>>
    /\ selectedUser = None
    /\ repositories = <<>>
    /\ searchLoading = TRUE
    /\ reposLoading = FALSE
    /\ hasSearched = TRUE
    /\ error = None
    /\ currentPage = 1
    /\ totalUsers = 0
    /\ hasNextPage = FALSE
    /\ \E page \in CalcPages :
          /\ searchReqs = <<SearchReq(<<"a">>, page)>>
          /\ lastEvent = [op |-> "searchBegin", page |-> page]
    /\ repoReqs = <<>>
    /\ ThemeAtMount(None, FALSE)

CalcNext == \E i \in 1..Len(searchReqs) : \E resp \in CalcResponses : SearchSettle(i, resp)

CalcSpec == CalcInit /\ [][CalcNext]_vars

----------------------------------------------------------------------------
(* Steps, as seen from a pair of states *)

\* the continuation of a search fetch ran on a failure
SearchFailStep == Len(searchReqs') < Len(searchReqs) /\ lastEvent'.op = "searchFail"

\* the continuation of a repository fetch ran
ReposSettleStep == Len(repoReqs') < Len(repoReqs)

\* ... on a failure
ReposFailStep == ReposSettleStep /\ lastEvent'.op = "reposFail"

\* handleUserSelect ran
SelectStep == Len(repoReqs') > Len(repoReqs)

\* searchUsers ran with a query that is empty after trimming
SearchEmptyStep ==
    /\ Trim(searchTerm) = <<>>
    /\ \/ HandleSearch
       \/ hasNextPage /\ HandleNextPage
       \/ currentPage > 1 /\ HandlePrevPage

\* searchUsers ran with a query that is not
SearchBeginStep == Len(searchReqs') > Len(searchReqs)

----------------------------------------------------------------------------
(* Selection lifecycle *)

\* C1: selection fencing.  The continuation of a repository fetch whose user
\* is not the selected user at that moment is discarded: it changes neither
\* the repositories, nor the loading flag, nor the error.
C1_SelectionFencing ==
    [][(ReposSettleStep /\ lastEvent'.username # selectedUser)
         => UNCHANGED <<repositories, reposLoading, error>>]_vars

\* C2: optimistic clear.  Right after handleUserSelect returns, the selected
\* user is the clicked one, the repositories are empty, reposLoading is true
\* and the error is cleared.
C2_OptimisticClear ==
    lastEvent.op = "select" =>
        /\ selectedUser = lastEvent.user
        /\ repositories = <<>>
        /\ reposLoading
        /\ error = None

----------------------------------------------------------------------------
(* Search lifecycle *)

\* C3: empty-query reset.  searchUsers with a query that is empty after
\* trimming issues no fetch and leaves users empty, totalUsers 0, the error
\* cleared, currentPage 1, hasNextPage false and hasSearched false.
C3_EmptyQueryReset ==
    [][SearchEmptyStep =>
          /\ searchReqs' = searchReqs /\ repoReqs' = repoReqs
          /\ users' = <<>>
          /\ totalUsers' = 0
          /\ error' = None
          /\ currentPage' = 1
          /\ hasNextPage' = FALSE
          /\ hasSearched' = FALSE]_vars

\* The response count and page flag a successful answer is to leave behind,
\* written from the rule of the pagination calculator.
HardCap == 1000
ExpectedHasNext(total, page, n) ==
    n = usersPerPage /\ page * usersPerPage < Min(total, HardCap)

\* C4: last to complete wins.  Whatever the order of issue, after the
\* continuation of a search fetch the users, totalUsers, currentPage and
\* hasNextPage are the ones that answer writes: its items, count, page and
\* page flag on success; the emptied list, 0 and false on failure (which
\* writes a page only when the body came without items).
C4_LastToCompleteWins ==
    /\ lastEvent.op = "searchOk" =>
          /\ users = UserPage(lastEvent.resp.n)
          /\ totalUsers = TotalOrZero(lastEvent.resp.total)
          /\ currentPage = lastEvent.page
          /\ hasNextPage = ExpectedHasNext(TotalOrZero(lastEvent.resp.total),
                                           lastEvent.page, lastEvent.resp.n)
    /\ lastEvent.op = "searchFail" =>
          /\ users = <<>>
          /\ totalUsers = 0
          /\ hasNextPage = FALSE
          /\ lastEvent.resp.kind = "shape" => currentPage = lastEvent.page

\* a fetch issued before one that had already settled arrived last, with
\* no search pending any more, and its page stands
C4_Witness ==
    /\ lastEvent.op = "searchOk"
    /\ lastEvent.late
    /\ searchReqs = <<>>
    /\ currentPage = 1
    /\ users # <<>>

\* C5: PageState invariant.  hasNextPage is true only if currentPage *
\* usersPerPage < min(totalUsers, 1000) and users holds a full page; a
\* successful answer with a short page leaves hasNextPage false.
C5_PageStateInvariant ==
    /\ hasNextPage =>
          /\ currentPage * usersPerPage < Min(totalUsers, HardCap)
          /\ Len(users) = usersPerPage
    /\ (lastEvent.op = "searchOk" /\ lastEvent.resp.n < usersPerPage) => ~hasNextPage

\* hasNextPage is true while a search and a repository fetch are pending
C5_Witness ==
    /\ hasNextPage
    /\ searchReqs # <<>>
    /\ repoReqs # <<>>

\* a short page reported with a count that promises more
C5_ShortPageReached ==
    /\ lastEvent.op = "searchOk"
    /\ lastEvent.resp.n = 1
    /\ lastEvent.resp.total = MaxTotal

\* The ceiling of a / b, from its definition.
CeilOf(a, b) == CHOOSE k \in 0..a : (k - 1) * b < a /\ a <= k * b

\* C6: pagination calculation.  The hasNextPage a successful search stores
\* equals (items returned = usersPerPage and requested page <
\* ceil(min(total, 1000) / usersPerPage)).
C6_PaginationCalculation ==
    lastEvent.op = "searchOk" =>
        hasNextPage =
            (/\ lastEvent.resp.n = usersPerPage
             /\ lastEvent.page
                  < CeilOf(Min(lastEvent.resp.total, HardCap), usersPerPage))

\* page 3 answered with 5 items of 1000: there is a next page
C6_Witness ==
    /\ lastEvent.op = "searchOk"
    /\ lastEvent.page = 3
    /\ lastEvent.resp.n = usersPerPage
    /\ lastEvent.resp.total = HardCap
    /\ hasNextPage

\* the last page the API serves, answered with a count above the limit
C6_AtLimitReached ==
    /\ lastEvent.op = "searchOk"
    /\ lastEvent.page = PageLimit
    /\ lastEvent.resp.n = usersPerPage
    /\ lastEvent.resp.total > HardCap
    /\ ~hasNextPage

----------------------------------------------------------------------------
(* The shared error slot and the outcomes of failures *)

\* C7: error ownership.  Every start of searchUsers or handleUserSelect
\* leaves the error empty, every failure leaves its message, and a
\* successful continuation leaves the error as it was.
C7_ErrorOwnership ==
    [][/\ (SearchBeginStep \/ SearchEmptyStep \/ SelectStep) => error' = None
       /\ (SearchFailStep \/ ReposFailStep) => error' = ErrorText(lastEvent'.resp.kind)
       /\ ((Len(searchReqs') < Len(searchReqs) \/ ReposSettleStep)
            /\ lastEvent'.resp.kind = "ok") => error' = error]_vars

\* The same for the steps that issue a fetch or continue one.
C7_OwnershipOfFetches ==
    [][/\ (SearchBeginStep \/ SelectStep) => error' = None
       /\ (SearchFailStep \/ ReposFailStep) => error' = ErrorText(lastEvent'.resp.kind)
       /\ ((Len(searchReqs') < Len(searchReqs) \/ ReposSettleStep)
            /\ lastEvent'.resp.kind = "ok") => error' = error]_vars

\* C8: lifecycle isolation.  A failed repository fetch leaves the query, the
\* users, totalUsers, currentPage, hasNextPage and searchLoading as they
\* were; a failed search leaves selectedUser, the repositories and
\* reposLoading as they were.
C8_LifecycleIsolation ==
    [][/\ ReposFailStep =>
            UNCHANGED <<searchTerm, users, totalUsers, currentPage, hasNextPage,
                        searchLoading>>
       /\ SearchFailStep => UNCHANGED <<selectedUser, repositories, reposLoading>>]_vars

\* a repository fetch has failed under a page of results with a search pending
C8_Witness ==
    /\ lastEvent.op = "reposFail"
    /\ users # <<>>
    /\ hasNextPage
    /\ searchLoading

\* a search has failed under a loaded selection with a fetch pending
C8_SearchFailReached ==
    /\ lastEvent.op = "searchFail"
    /\ repositories # <<>>
    /\ reposLoading

\* C9: outcome of a failed repository fetch.  The error is set to a message,
\* the repositories are empty, reposLoading is false, the selected user is
\* unchanged (the user of the fetch, when handleUserSelect has not run
\* since), and no fetch is issued.
C9_ReposFailureOutcome ==
    [][ReposFailStep =>
          /\ error' # None
          /\ repositories' = <<>>
          /\ reposLoading' = FALSE
          /\ selectedUser' = selectedUser
          /\ ~lastEvent'.stale => selectedUser' = lastEvent'.username
          /\ Len(repoReqs') = Len(repoReqs) - 1
          /\ searchReqs' = searchReqs]_vars

\* the fetch of the selected user has failed, with no newer selection
C9_Witness ==
    /\ lastEvent.op = "reposFail"
    /\ ~lastEvent.stale
    /\ selectedUser = lastEvent.username
    /\ error # None
    /\ repoReqs = <<>>

\* C10: outcome of a failed search.  The error is set to a message, the users
\* are empty, totalUsers is 0, hasNextPage is false, searchLoading is false,
\* and no fetch is issued.
C10_SearchFailureOutcome ==
    [][SearchFailStep =>
          /\ error' # None
          /\ users' = <<>>
          /\ totalUsers' = 0
          /\ hasNextPage' = FALSE
          /\ searchLoading' = FALSE
          /\ Len(searchReqs') = Len(searchReqs) - 1
          /\ repoReqs' = repoReqs]_vars

\* a search has failed after a page of results had been shown
C10_Witness ==
    /\ lastEvent.op = "searchFail"
    /\ lastEvent.page = 2
    /\ lastEvent.resp.kind # "shape"
    /\ users = <<>>
    /\ error # None
    /\ ~searchLoading

----------------------------------------------------------------------------
\* the fetch that the step has just issued
IssuedSearch == searchReqs'[Len(searchReqs')]

----------------------------------------------------------------------------
\* C11: handleNextPage issues no fetch and changes no state when hasNextPage
\* is false, and handlePrevPage none when currentPage is 1; otherwise they
\* call searchUsers with exactly currentPage + 1 and currentPage - 1, so that
\* no fetch is ever pending for a page below 1.
C11_PageNavigationGuards ==
    [][ /\ (~hasNextPage /\ HandleNextPage) => UNCHANGED programVars
        /\ (currentPage = 1 /\ HandlePrevPage) => UNCHANGED programVars
        /\ (hasNextPage /\ HandleNextPage /\ SearchBeginStep)
              => IssuedSearch.page = currentPage + 1
        /\ (currentPage > 1 /\ HandlePrevPage /\ SearchBeginStep)
              => IssuedSearch.page = currentPage - 1
        /\ \A j \in 1..Len(searchReqs') : searchReqs'[j].page >= 1
      ]_vars

\* Both controls were pressed in vain on a rendered single page.
C11_Witness ==
    /\ lastEvent.op = "noop"
    /\ users # <<>>
    /\ currentPage = 1
    /\ ~hasNextPage

\* A fetch of the page after and of the page before were issued.
C11_BothDirectionsReached ==
    /\ Len(searchReqs) = 2
    /\ searchReqs[1].page = 2
    /\ searchReqs[2].page = 1
    /\ currentPage = 2

----------------------------------------------------------------------------
\* the continuation of a search fetch ran on a success
SearchOkStep == Len(searchReqs') < Len(searchReqs) /\ lastEvent'.op = "searchOk"

\* the messages that a failed repository fetch leaves
ReposFailureTexts == {ErrorText(kind) : kind \in {"http_repos", "rejected"}}

\* the fields that the success of a search for lastEvent.page has written
SearchOutcomeWritten ==
    /\ users = UserPage(lastEvent.resp.n)
    /\ totalUsers = TotalOrZero(lastEvent.resp.total)
    /\ currentPage = lastEvent.page
    /\ ~searchLoading
    /\ lastEvent.page = 1 => (currentPage = 1 /\ ~(currentPage > 1))

----------------------------------------------------------------------------
\* C13: running searchUsers to completion twice with the same query, the
\* same page and the same answer ends in the state that the first run ended
\* in, from every starting state.
C13_SearchIdempotent ==
    (lastEvent.op = "idemDone" /\ lastEvent.run = 2) => programVars = lastEvent.after

\* The second run of a search that replaced a list of another length ended.
C13_Witness ==
    /\ lastEvent.op = "idemDone"
    /\ lastEvent.run = 2
    /\ lastEvent.resp.kind = "ok"
    /\ lastEvent.resp.n = 1
    /\ lastEvent.page = 2
    /\ selectedUser # None

\* The second run of a failed search and of a search for a blank query ended.
C13_FailedTwiceReached ==
    /\ lastEvent.op = "idemDone"
    /\ lastEvent.run = 2
    /\ lastEvent.resp.kind = "http_search"
    /\ error = MsgSearch

C13_BlankTwiceReached ==
    /\ lastEvent.op = "idemDone"
    /\ lastEvent.run = 2
    /\ lastEvent.resp = NoAnswer
    /\ error # None

----------------------------------------------------------------------------
\* C14: handleSearchChange changes the text of the input and nothing else:
\* it issues no fetch and leaves users, totalUsers, currentPage, hasNextPage,
\* both loading flags, hasSearched, error, selectedUser and repositories.
C14_SetQueryFrame ==
    [][searchTerm' # searchTerm
          => UNCHANGED <<users, totalUsers, currentPage, hasNextPage, searchLoading,
                         reposLoading, hasSearched, error, selectedUser, repositories,
                         searchReqs, repoReqs>>]_vars

\* The text was changed on the second page with an error on display, a user
\* selected and a fetch of each kind pending.
C14_Witness ==
    /\ searchTerm = <<" ">>
    /\ currentPage > 1
    /\ users # <<>>
    /\ selectedUser # None
    /\ error # None
    /\ searchReqs # <<>>
    /\ repoReqs # <<>>
    /\ \A j \in 1..Len(searchReqs) : searchReqs[j].query # searchTerm

----------------------------------------------------------------------------
\* the continuation of a search fetch ran
SearchSettleStep == Len(searchReqs') < Len(searchReqs)

\* the repository fetch that the last call of handleUserSelect issued is pending
SelectionFetchPending ==
    \E j \in 1..Len(repoReqs) : repoReqs[j].username = selectedUser /\ ~repoReqs[j].stale

----------------------------------------------------------------------------
\* C15: while the repository fetch of the selected user is pending,
\* reposLoading is true.  Stated for the case of two different users: after a
\* click on A and then on another user B, the answer to A's fetch (success
\* or failure) leaves reposLoading true while B's fetch is pending.
C15_ReposLoadingTracksSelection ==
    ( /\ lastEvent.op \in {"reposOk", "reposFail"}
      /\ lastEvent.username # selectedUser
      /\ SelectionFetchPending ) => reposLoading

----------------------------------------------------------------------------
\* C16 as stated: searchLoading is true exactly when a search fetch is
\* pending, also when overlapping searches complete at different times.
C16_SearchLoadingMeansInFlight == searchLoading <=> (searchReqs # <<>>)

\* C16, amended: searchLoading is true only while a search fetch is pending;
\* it is true after every call of searchUsers that issues a fetch and false
\* after every continuation, also one that leaves another fetch pending.
C16_SearchLoadingUntilFirstAnswer ==
    /\ searchLoading => searchReqs # <<>>
    /\ lastEvent.op = "searchBegin" => searchLoading
    /\ lastEvent.op \in {"searchOk", "searchFail"} => ~searchLoading

\* The first of two overlapping searches was answered.
C16_Witness ==
    /\ lastEvent.op \in {"searchOk", "searchFail"}
    /\ searchReqs # <<>>
    /\ ~searchLoading

----------------------------------------------------------------------------
\* what lines 80-83 leave
ResultsCleared == users = <<>> /\ totalUsers = 0 /\ ~hasNextPage /\ currentPage = 1

\* C17 as stated: while hasSearched is false, users is empty, totalUsers is
\* 0, hasNextPage is false and currentPage is 1, also when searchUsers is
\* called with a blank query during a search whose answer arrives afterwards.
C17_NoActiveSearchState == ~hasSearched => ResultsCleared

\* C17, amended: hasSearched is false and the four fields are cleared at the
\* start and after every call of searchUsers with a blank query, and they
\* stay so until that call is followed by a search that issues a fetch or by
\* the answer to a search that was pending at the call; that answer writes
\* the four fields and leaves hasSearched false.
C17_NoActiveSearchUntilAnswer ==
    /\ [](lastEvent.op \in {"init", "searchEmpty"} => (~hasSearched /\ ResultsCleared))
    /\ [][(~hasSearched /\ ResultsCleared /\ ~SearchSettleStep)
             => (hasSearched' \/ ResultsCleared')]_vars
    /\ [][(~hasSearched /\ SearchSettleStep) => ~hasSearched']_vars

\* A search was answered with users after a blank query had reset the state.
C17_Witness ==
    /\ ~hasSearched
    /\ lastEvent.op = "searchOk"
    /\ users # <<>>
    /\ currentPage = 1

----------------------------------------------------------------------------
\* what a page control does for the page it asks for: with a blank text in
\* the input the state is reset and no fetch is issued, otherwise one fetch
\* is issued for the text in the input and that page
PagedWithInputText(page) ==
    IF Trim(searchTerm) = <<>>
    THEN /\ searchReqs' = searchReqs
         /\ ~hasSearched'
         /\ ResultsCleared'
    ELSE /\ Len(searchReqs') = Len(searchReqs) + 1
         /\ IssuedSearch.query = searchTerm
         /\ IssuedSearch.page = page

\* C19: handleNextPage and handlePrevPage search for the text that is in the
\* input when they run, submitted or not, at currentPage + 1 and
\* currentPage - 1; with a blank text they reset the state to "no active
\* search" and issue no fetch.
C19_PagingUsesInputText ==
    [][ /\ (hasNextPage /\ HandleNextPage) => PagedWithInputText(currentPage + 1)
        /\ (currentPage > 1 /\ HandlePrevPage) => PagedWithInputText(currentPage - 1)
      ]_vars

\* The next page was asked for with a text that only paging has searched for.
C19_Witness ==
    /\ lastEvent = [op |-> "searchBegin", page |-> 2]
    /\ searchTerm = <<"b">>
    /\ searchReqs = <<SearchReq(<<"b">>, 2)>>
    /\ users = UserPage(usersPerPage)
    /\ currentPage = 1

\* A page control was pressed with a blank text in the input.
C19_BlankReached ==
    /\ lastEvent.op = "searchEmpty"
    /\ searchTerm = <<" ">>
    /\ searchReqs # <<>>
    /\ searchReqs[1].page = 2

----------------------------------------------------------------------------
\* C18: if from some point on no handler runs, and every pending fetch is
\* answered in the end, then from some point on searchLoading and
\* reposLoading are both false, however many fetches overlapped.
C18_Quiescence ==
    []<><<Command>>_vars \/ <>[](~searchLoading /\ ~reposLoading)

\* Fetches of both kinds overlap, up to the bound, with both flags set.
C18_Witness ==
    /\ Len(searchReqs) + Len(repoReqs) = MaxInFlight
    /\ Len(searchReqs) > 1
    /\ repoReqs # <<>>
    /\ searchLoading
    /\ reposLoading

----------------------------------------------------------------------------
\* the value of isDarkMode that goes with what localStorage held at the mount
StartupTheme(saved) == IF saved # None THEN saved = "dark" ELSE prefersDark

\* C20: after the first flush of effects isDarkMode is the value saved in
\* localStorage if there was one and the preference of the system otherwise;
\* from then on isDarkMode changes only in toggleTheme, which negates it; and
\* after the start and after every toggleTheme the item of localStorage
\* becomes 'dark' if isDarkMode is true and 'light' if not, in the end.
C20_ThemeLifecycle ==
    /\ [](lastEvent.op = "themeStart" => isDarkMode = StartupTheme(lastEvent.saved))
    /\ [][(ThemeMounted /\ isDarkMode' # isDarkMode)
             => (lastEvent'.op = "toggleTheme" /\ isDarkMode' = ~isDarkMode)]_vars
    /\ [](themePc = "idle" => savedTheme = ThemeName(isDarkMode))
    /\ (lastEvent.op \in {"themeStart", "toggleTheme"}) ~> (savedTheme = ThemeName(isDarkMode))

\* The component started dark from the saved value in a light system, was
\* toggled to light, and 'light' has been saved.
C20_Witness ==
    /\ lastEvent.op = "toggleTheme"
    /\ ~prefersDark
    /\ ~isDarkMode
    /\ savedTheme = "light"
    /\ themePc = "idle"

\* The component started dark from the preference of the system.
C20_SystemDefaultReached ==
    /\ lastEvent = [op |-> "themeStart", saved |-> None]
    /\ isDarkMode
    /\ savedTheme = "dark"

====
